---- MODULE Spec2Model ----
(***************************************************************************)
(* Model of src/src/sleep-or-cram.tsx: the SleepOrCram component, its      *)
(* wizard state (step, form fields, quiz answers, result) and the          *)
(* recommendation computed by calculateRecommendation.                     *)
(*                                                                         *)
(* Number representation.  The source computes in IEEE-754 doubles        *)
(* (JavaScript numbers).  The model computes the same values in integers:  *)
(*   - a clock string "HH:MM" is the pair <<HH, MM>>;                      *)
(*   - a double that holds a number of hours is the pair <<a, d>> that     *)
(*     stands for the number  a/60 + d / (60 * 2^58)  : a is the exact     *)
(*     number of minutes and d the rounding error the double carries, in   *)
(*     units of 2^-58/60 hour.  Every sum and difference is rounded to     *)
(*     the nearest double (ties to even) as the hardware does, see         *)
(*     RoundNearest; an hour value without rounding error has d = 0;       *)
(*   - factors are held in tenths (fatigueFactor, timeFactor) or           *)
(*     hundredths (cognitiveStateFactor, confidence multiplier);           *)
(*   - benefits that may be fractional (cram benefit, boostS2) are held    *)
(*     exactly, in units of 1/10000 point (Points(25) is 25 points): over  *)
(*     the values these products take, comparing and rounding the double   *)
(*     gives the same result as comparing and rounding the exact value;    *)
(*   - the confidence blend is rounded as the double is, see               *)
(*     FloatBelowTie.                                                      *)
(***************************************************************************)
EXTENDS Integers, Sequences, FiniteSets, TLC

VARIABLES step, examTime, currentTime, confidence, hoursStudied,
          quizAnswers, result,
          computations    \* history: how many results were computed so far

vars == <<step, examTime, currentTime, confidence, hoursStudied,
          quizAnswers, result, computations>>

----------------------------------------------------------------------------
(* Bounds of the model *)

\* The largest number typed into "Hours Studied Today".
MaxHoursStudied == 4

\* The history counter computations stops counting here.
MaxComputations == 2

----------------------------------------------------------------------------
(* Integer helpers *)

Max(a, b) == IF a >= b THEN a ELSE b

Min(a, b) == IF a <= b THEN a ELSE b

Pow2Table == <<1, 2, 4, 8, 16, 32, 64, 128, 256, 512, 1024, 2048, 4096,
               8192, 16384, 32768>>

\* 2^n for n in 0..15
Pow2(n) == Pow2Table[n + 1]

\* 2^n modulo 60 for n >= 2: the residues cycle 4, 8, 16, 32.
Pow2Mod60(n) ==
    IF n % 4 = 2 THEN 4
    ELSE IF n % 4 = 3 THEN 8
    ELSE IF n % 4 = 0 THEN 16
    ELSE 32

Points(n) == n * 10000

\* Math.round of the rational num/den (den > 0): nearest integer, ties up.
MathRound(num, den) == (2 * num + den) \div (2 * den)

----------------------------------------------------------------------------
(* IEEE-754 double arithmetic on hour values.                              *)
(* The pair <<a, d>> stands for T / (60 * 2^58) with T = a * 2^58 + d.     *)
(* A double in [2^e, 2^(e+1)) is a multiple of 2^(e-52), that is, T is a   *)
(* multiple of 60 * 2^(e+6).                                               *)

\* A whole number of hours: exactly representable.
Whole(h) == <<60 * h, 0>>

DblLt(x, y) == x[1] < y[1] \/ (x[1] = y[1] /\ x[2] < y[2])

DblGt(x, y) == DblLt(y, x)

DblGe(x, y) == ~DblLt(x, y)

DblLe(x, y) == ~DblLt(y, x)

\* Math.max and Math.min
DblMax(x, y) == IF DblGe(x, y) THEN x ELSE y

DblMin(x, y) == IF DblLe(x, y) THEN x ELSE y

\* value >= 2^e, for a value with a > 0 and e in -6..8
AtLeastPow2(a, d, e) ==
    \/ 64 * a > 60 * Pow2(e + 6)
    \/ 64 * a = 60 * Pow2(e + 6) /\ d >= 0

\* The binary exponent e (2^e <= value < 2^(e+1)) of a positive value with
\* a > 0; hour values of the program lie in [2^-6, 2^9).
Exponent(a, d) ==
    IF AtLeastPow2(a, d, 4)
    THEN IF AtLeastPow2(a, d, 6)
         THEN IF AtLeastPow2(a, d, 8) THEN 8
              ELSE IF AtLeastPow2(a, d, 7) THEN 7 ELSE 6
         ELSE IF AtLeastPow2(a, d, 5) THEN 5 ELSE 4
    ELSE IF AtLeastPow2(a, d, 0)
         THEN IF AtLeastPow2(a, d, 2)
              THEN IF AtLeastPow2(a, d, 3) THEN 3 ELSE 2
              ELSE IF AtLeastPow2(a, d, 1) THEN 1 ELSE 0
         ELSE IF AtLeastPow2(a, d, -3)
              THEN IF AtLeastPow2(a, d, -1) THEN -1
                   ELSE IF AtLeastPow2(a, d, -2) THEN -2 ELSE -3
              ELSE IF AtLeastPow2(a, d, -4) THEN -4
                   ELSE IF AtLeastPow2(a, d, -5) THEN -5 ELSE -6

\* (a * 2^58 + d) modulo 60 * 2^j, for a >= 0 and j in 0..14
TMod(a, d, j) ==
    (Pow2(j) * (((a % 60) * Pow2Mod60(58 - j)) % 60) + d) % (60 * Pow2(j))

\* Round a positive exact value (a > 0) to the nearest double, ties to even.
RoundPositive(a, d) ==
    LET j == Exponent(a, d) + 6
        ulp == 60 * Pow2(j)
        r == TMod(a, d, j)
        down == <<a, d - r>>
        up == <<a, d + ulp - r>>
    IN  IF 2 * r < ulp THEN down
        ELSE IF 2 * r > ulp THEN up
        ELSE IF TMod(a, d, j + 1) >= ulp THEN up
        ELSE down

\* Round an exact value to the nearest double.  With a = 0 the value is a
\* difference of two nearby doubles, which is a double (no rounding).
\* (A function, for the checker to evaluate it as one step.)
RoundNearest[a \in Int, d \in Int] ==
    IF a = 0 THEN <<0, d>>
    ELSE IF a > 0 THEN RoundPositive(a, d)
    ELSE LET p == RoundPositive(-a, -d) IN <<-p[1], -p[2]>>

\* x + y and x - y of two doubles
DblAdd(x, y) == RoundNearest[x[1] + y[1], x[2] + y[2]]

DblSub(x, y) == RoundNearest[x[1] - y[1], x[2] - y[2]]

\* x * 10
DblTimes10(x) == RoundNearest[10 * x[1], 10 * x[2]]

\* Math.floor of a non-negative double
MathFloor(x) ==
    IF x[1] % 60 # 0 \/ x[2] >= 0 THEN x[1] \div 60 ELSE x[1] \div 60 - 1

\* Math.floor(x * 10) / 10, held in tenths.
FloorTenths(x) == MathFloor(DblTimes10(x))

NULL == [decision |-> "null"]

----------------------------------------------------------------------------
(* Program constants *)

minSleepNeeded == 6

optimalSleep == 8

maxProductiveStudy == 3

QuizOptions == {0, 33, 67, 100}

----------------------------------------------------------------------------
(* calculateRecommendation and its helpers *)

\* parseTime: hours + minutes / 60, two rounded operations.
parseTime(timeStr) ==
    DblAdd(Whole(timeStr[1]), RoundNearest[timeStr[2], 0])

\* The pairs <<q1 + q2 + q3, confidence>> of the input domain for which the
\* exact value of 0.7 * sum + 0.3 * confidence is k + 0.5 while its double
\* evaluation (two rounded products and a rounded sum) is just below
\* k + 0.5, so that Math.round returns k.  For every other pair of the
\* domain Math.round of the double equals the exact round-half-up.
FloatBelowTie ==
    {<<33, c>>  : c \in {8, 18}}
    \cup {<<66, c>>  : c \in {1, 11, 21, 31, 41, 51}}
    \cup {<<166, c>> : c \in {1, 11, 21, 31}}
    \cup {<<167, c>> : c \in {2, 12, 22, 32}}
    \cup {<<234, c>> : c \in {9, 19, 29, 39, 49, 59, 69, 79, 89, 99}}
    \cup {<<267, c>> : c \in {2, 12, 22, 32, 42, 52, 62, 72, 82, 92}}

\* A finalConfidence held within the range of the slider, for comparison.
finalConfidenceClamped(quiz, conf) ==
    LET sum == quiz.q1 + quiz.q2 + quiz.q3
    IN  Min(100, MathRound(7 * sum + 3 * conf, 10))

finalConfidence(quiz, conf) ==
    LET sum == quiz.q1 + quiz.q2 + quiz.q3
        tenths == 7 * sum + 3 * conf
    IN  IF <<sum, conf>> \in FloatBelowTie
        THEN tenths \div 10
        ELSE MathRound(tenths, 10)

\* availableHours without the wrap around midnight, for comparison.
availableHoursNoWrap(now, exam) == DblSub(exam, now)

\* availableHours that wraps also when the two times are equal, for
\* comparison.
availableHoursWrapAtEqual(now, exam) ==
    LET diff == DblSub(exam, now)
    IN  IF DblLe(diff, Whole(0)) THEN DblAdd(diff, Whole(24)) ELSE diff

availableHours(now, exam) ==
    LET diff == DblSub(exam, now)
    IN  IF DblLt(diff, Whole(0)) THEN DblAdd(diff, Whole(24)) ELSE diff

isLateNight(now) == DblGe(now, Whole(22)) \/ DblLe(now, Whole(4))

\* in tenths
fatigueFactor(hs) ==
    IF hs >= 4 THEN 4 ELSE IF 10 * hs >= 25 THEN 6 ELSE 10

\* in tenths
timeFactor(now) == IF isLateNight(now) THEN 5 ELSE 10

\* in hundredths
cognitiveStateFactor(now, hs) == fatigueFactor(hs) * timeFactor(now)

highConfidence(fc) == fc >= 75

lowConfidence(fc) == fc <= 35

\* in hundredths
confidenceMultiplier(fc) ==
    IF lowConfidence(fc) THEN 125
    ELSE IF highConfidence(fc) THEN 75
    ELSE 100

\* getCramBenefit without the adjustment for confidence, for comparison.
getCramBenefitNoConfidence(hours, csf, fc) ==
    LET b1 == IF DblGe(hours, Whole(1)) THEN 20 ELSE 0
        b2 == IF DblGe(hours, Whole(2)) THEN b1 + 12 ELSE b1
        base == IF DblGe(hours, Whole(3)) THEN b2 + 8 ELSE b2
    IN  base * csf * 100

\* hours a double, csf in hundredths, result in 1/10000 point.
getCramBenefit(hours, csf, fc) ==
    LET b1 == IF DblGe(hours, Whole(1)) THEN 20 ELSE 0
        b2 == IF DblGe(hours, Whole(2)) THEN b1 + 12 ELSE b1
        base == IF DblGe(hours, Whole(3)) THEN b2 + 8 ELSE b2
    IN  base * csf * confidenceMultiplier(fc)

\* getSleepBenefit with the first step above 8 hours instead of at 8
\* hours, for comparison.
getSleepBenefitAbove(sleepHours) ==
    IF DblGt(sleepHours, Whole(optimalSleep)) THEN 25
    ELSE IF DblGe(sleepHours, Whole(minSleepNeeded)) THEN 15
    ELSE IF DblGe(sleepHours, Whole(4)) THEN 5
    ELSE IF DblGt(sleepHours, Whole(0)) THEN -25
    ELSE -40

\* sleepHours a double, result in points.
getSleepBenefit(sleepHours) ==
    IF DblGe(sleepHours, Whole(optimalSleep)) THEN 25
    ELSE IF DblGe(sleepHours, Whole(minSleepNeeded)) THEN 15
    ELSE IF DblGe(sleepHours, Whole(4)) THEN 5
    ELSE IF DblGt(sleepHours, Whole(0)) THEN -25
    ELSE -40

sleepHoursS1(av) == DblMax(Whole(0), DblSub(av, Whole(1)))

\* studyHoursS2 that leaves the hour of preparation out of what it keeps
\* free, for comparison.
studyHoursS2NoReserve(av) ==
    DblMin(Whole(maxProductiveStudy),
           DblMax(Whole(0), DblSub(av, Whole(minSleepNeeded))))

\* studyHoursS2 without the cap of maxProductiveStudy, for comparison.
studyHoursS2Uncapped(av) ==
    DblMax(Whole(0), DblSub(DblSub(av, Whole(minSleepNeeded)), Whole(1)))

studyHoursS2(av) ==
    DblMin(Whole(maxProductiveStudy),
           DblMax(Whole(0),
                  DblSub(DblSub(av, Whole(minSleepNeeded)), Whole(1))))

\* sleepHoursS2 without the hour of preparation, for comparison.
sleepHoursS2NoReserve(av, study) ==
    DblMax(Whole(0), DblSub(av, study))

sleepHoursS2(av, study) ==
    DblMax(Whole(0), DblSub(DblSub(av, study), Whole(1)))

\* The decision on the boosts alone, without the test of the available
\* hours, for comparison.
sleepWinsOnBoosts(av, b1, b2, s1) ==
    /\ Points(b1) > b2
    /\ DblGe(s1, Whole(6))

\* The decision on the hours alone, whatever the boosts, for comparison.
sleepWinsOnHours(av, b1, b2, s1) ==
    \/ DblLt(av, Whole(5))
    \/ DblGe(s1, Whole(6))

\* The decision with ties of the boosts going to scenario 1, for
\* comparison.
sleepWinsOnTie(av, b1, b2, s1) ==
    \/ DblLt(av, Whole(5))
    \/ /\ Points(b1) >= b2
       /\ DblGe(s1, Whole(6))

\* The condition of the final decision: scenario 1 wins.  b1 in points,
\* b2 in 1/10000 point.
sleepWins(av, b1, b2, s1) ==
    \/ DblLt(av, Whole(5))
    \/ /\ Points(b1) > b2
       /\ DblGe(s1, Whole(6))

\* The local constants of calculateRecommendation, in the order the code
\* computes them.  Each group of constants is an operator of the ones
\* before it, so that every constant is computed once, as in the code.
LocalsOfBenefits(fc, now, exam, av, csf, s1, study, s2, cram, sb2) ==
    [finalConfidence |-> fc,
     now |-> now,
     exam |-> exam,
     availableHours |-> av,
     cognitiveStateFactor |-> csf,
     sleepHoursS1 |-> s1,
     boostS1 |-> getSleepBenefit(s1),
     studyHoursS2 |-> study,
     sleepHoursS2 |-> s2,
     cramBenefitS2 |-> cram,
     sleepBenefitS2 |-> sb2,
     boostS2 |-> cram + Points(sb2)]

LocalsOfSleepS2(fc, now, exam, av, csf, s1, study, s2) ==
    LocalsOfBenefits(fc, now, exam, av, csf, s1, study, s2,
                     getCramBenefit(study, csf, fc), getSleepBenefit(s2))

LocalsOfStudy(fc, now, exam, av, csf, s1, study) ==
    LocalsOfSleepS2(fc, now, exam, av, csf, s1, study,
                    sleepHoursS2(av, study))

LocalsOfAvailable(fc, now, exam, av, hs) ==
    LocalsOfStudy(fc, now, exam, av, cognitiveStateFactor(now, hs),
                  sleepHoursS1(av), studyHoursS2(av))

LocalsOfTimes(fc, now, exam, hs) ==
    LocalsOfAvailable(fc, now, exam, availableHours(now, exam), hs)

Locals(ct, et, conf, hs, quiz) ==
    LocalsOfTimes(finalConfidence(quiz, conf), parseTime(ct), parseTime(et),
                  hs)

\* projectedBoost without Math.max(0, ...), for comparison.
projectedBoostUnclamped(sleep, b1, b2) ==
    IF sleep THEN Points(b1) ELSE b2

\* projectedBoost before rounding, in 1/10000 point: Math.max(0, boostS1)
\* in the sleep branch, Math.max(0, boostS2) in the other.
projectedBoostOf(sleep, b1, b2) ==
    IF sleep THEN Points(Max(0, b1)) ELSE Max(0, b2)

\* The record passed to setResult, from the locals.  The texts are held by
\* the values they are built from: reasoning by the branch that wrote it,
\* actionPlan by its length and the hour values printed in it (whole hours
\* for the sleep plan, tenths of an hour for the split plan).
ResultOf(l) ==
    LET av == l.availableHours
        sleep == sleepWins(av, l.boostS1, l.boostS2, l.sleepHoursS1)
        limited == DblLt(av, Whole(5))
        decision == IF sleep THEN "sleep" ELSE "strategic-cram"
        projectedBoost == projectedBoostOf(sleep, l.boostS1, l.boostS2)
        reasoning == IF sleep
                     THEN IF limited THEN "limited-time" ELSE "max-sleep"
                     ELSE "strategic-split"
        actionPlan == IF sleep
                      THEN IF limited
                           THEN [steps |-> 3, study |-> 0, sleep |-> 0]
                           ELSE [steps |-> 3, study |-> 0,
                                 sleep |-> MathFloor(l.sleepHoursS1)]
                      ELSE [steps |-> 4,
                            study |-> FloorTenths(l.studyHoursS2),
                            sleep |-> FloorTenths(l.sleepHoursS2)]
    IN  [decision |-> decision,
         reasoning |-> reasoning,
         projectedBoost |-> MathRound(projectedBoost, Points(1)),
         actionPlan |-> actionPlan,
         availableHours |-> FloorTenths(av),
         effectiveStudyHours |->
             FloorTenths(IF decision = "strategic-cram"
                         THEN l.studyHoursS2 ELSE Whole(0)),
         cognitiveState |-> MathRound(l.cognitiveStateFactor * 100, 100),
         adjustedConfidence |-> l.finalConfidence,
         boostS1 |-> l.boostS1,
         boostS2 |-> MathRound(l.boostS2, Points(1)),
         sleepBenefitS1 |-> getSleepBenefit(l.sleepHoursS1),
         cramBenefitS2 |-> MathRound(l.cramBenefitS2, Points(1)),
         sleepBenefitS2 |-> l.sleepBenefitS2]

\* A calculateRecommendation that carries fatigue over from the
\* computations before it, for comparison.
calculateRecommendationWithHistory ==
    /\ result' = ResultOf(Locals(currentTime, examTime, confidence,
                                 hoursStudied + 4 * computations,
                                 quizAnswers))
    /\ step' = "result"
    /\ computations' = Min(computations + 1, MaxComputations)
    /\ UNCHANGED <<examTime, currentTime, confidence, hoursStudied,
                   quizAnswers>>

calculateRecommendation ==
    /\ result' = ResultOf(Locals(currentTime, examTime, confidence,
                                 hoursStudied, quizAnswers))
    /\ step' = "result"
    /\ computations' = Min(computations + 1, MaxComputations)
    /\ UNCHANGED <<examTime, currentTime, confidence, hoursStudied,
                   quizAnswers>>

\* A resetApp that leaves the stored result in place, for comparison.
resetAppKeepingResult ==
    /\ step' = "input"
    /\ quizAnswers' = [q1 |-> 0, q2 |-> 0, q3 |-> 0]
    /\ UNCHANGED <<examTime, currentTime, confidence, hoursStudied,
                   result, computations>>

resetApp ==
    /\ step' = "input"
    /\ quizAnswers' = [q1 |-> 0, q2 |-> 0, q3 |-> 0]
    /\ result' = NULL
    /\ UNCHANGED <<examTime, currentTime, confidence, hoursStudied,
                   computations>>

----------------------------------------------------------------------------
(* The three screens of the component and their controls *)

\* The screen rendered for a state: the quiz when step is 'quiz', the
\* result when step is 'result' and a result is stored, the form otherwise.
Screen ==
    IF step = "quiz" THEN "quiz"
    ELSE IF step = "result" /\ result # NULL THEN "result"
    ELSE "input"

QuizRecords == [q1 : QuizOptions, q2 : QuizOptions, q3 : QuizOptions]

\* Values of the form fields the model tries.
UiClockTimes == {<<22, 0>>, <<9, 0>>, <<3, 12>>}

UiSliderValues == {50, 100}

\* What parseInt makes of the text typed into the number field.
TypedNumbers ==
    {[nan |-> TRUE, int |-> 0]}
    \cup {[nan |-> FALSE, int |-> n] : n \in -1 .. MaxHoursStudied}

setCurrentTime(value) ==
    /\ Screen = "input"
    /\ currentTime' = value
    /\ UNCHANGED <<step, examTime, confidence, hoursStudied, quizAnswers,
                   result, computations>>

setExamTime(value) ==
    /\ Screen = "input"
    /\ examTime' = value
    /\ UNCHANGED <<step, currentTime, confidence, hoursStudied, quizAnswers,
                   result, computations>>

\* Math.max(0, parseInt(e.target.value) || 0)
setHoursStudied(parsed) ==
    /\ Screen = "input"
    /\ hoursStudied' = Max(0, IF parsed.nan THEN 0 ELSE parsed.int)
    /\ UNCHANGED <<step, examTime, currentTime, confidence, quizAnswers,
                   result, computations>>

setConfidence(value) ==
    /\ Screen = "input"
    /\ confidence' = value
    /\ UNCHANGED <<step, examTime, currentTime, hoursStudied, quizAnswers,
                   result, computations>>

\* "Continue to Confidence Check"
continueToQuiz ==
    /\ Screen = "input"
    /\ step' = "quiz"
    /\ UNCHANGED <<examTime, currentTime, confidence, hoursStudied,
                   quizAnswers, result, computations>>

\* An option button of question 1, 2 or 3
selectAnswer(question, value) ==
    /\ Screen = "quiz"
    /\ quizAnswers' = [quizAnswers EXCEPT ![question] = value]
    /\ UNCHANGED <<step, examTime, currentTime, confidence, hoursStudied,
                   result, computations>>

\* "Back"
backToInput ==
    /\ Screen = "quiz"
    /\ step' = "input"
    /\ UNCHANGED <<examTime, currentTime, confidence, hoursStudied,
                   quizAnswers, result, computations>>

\* The submit button is disabled while all three answers are 0.
submitDisabled ==
    quizAnswers.q1 = 0 /\ quizAnswers.q2 = 0 /\ quizAnswers.q3 = 0

\* A submit button that is never disabled, for comparison.
handleQuizSubmitAlways ==
    /\ Screen = "quiz"
    /\ calculateRecommendation

\* "Get My Recommendation"
handleQuizSubmit ==
    /\ Screen = "quiz"
    /\ ~submitDisabled
    /\ calculateRecommendation

\* "New Decision"
newDecision ==
    /\ Screen = "result"
    /\ resetApp

Init ==
    /\ step = "input"
    /\ examTime = <<9, 0>>
    /\ currentTime = <<22, 0>>
    /\ confidence = 50
    /\ hoursStudied = 0
    /\ quizAnswers = [q1 |-> 0, q2 |-> 0, q3 |-> 0]
    /\ result = NULL
    /\ computations = 0

Next ==
    \/ \E value \in UiClockTimes : setCurrentTime(value)
    \/ \E value \in UiClockTimes : setExamTime(value)
    \/ \E parsed \in TypedNumbers : setHoursStudied(parsed)
    \/ \E value \in UiSliderValues : setConfidence(value)
    \/ continueToQuiz
    \/ \E question \in {"q1", "q2", "q3"}, value \in QuizOptions :
           selectAnswer(question, value)
    \/ backToInput
    \/ handleQuizSubmit
    \/ newDecision

Spec == Init /\ [][Next]_vars

----------------------------------------------------------------------------
(* The engine alone: calculateRecommendation applied to inputs drawn from  *)
(* bounded sets, whatever the quiz answers.                                *)

Minutes == {0, 54}

ClockTimes == {<<h, m>> : h \in 0..23, m \in Minutes}

\* Every pair of clock times, with the default slider, the first question
\* answered so that finalConfidence is low (15), neutral (38) or high
\* (85), and the hours studied on each side of the steps of fatigueFactor
\* at 2.5 and 4: 0, and 3 and more.
ClockSweep ==
    /\ hoursStudied \in {0} \cup 3..MaxHoursStudied
    /\ currentTime \in ClockTimes
    /\ examTime \in ClockTimes
    /\ confidence = 50
    /\ quizAnswers \in {q \in QuizRecords :
                           q.q1 \in {0, 33, 100} /\ q.q2 = 0 /\ q.q3 = 0}

\* Every slider position and every combination of answers, from 22:00 to
\* 09:00.
ConfidenceSweep ==
    /\ hoursStudied = 0
    /\ currentTime = <<22, 0>>
    /\ examTime = <<9, 0>>
    /\ confidence \in 0..100
    /\ quizAnswers \in QuizRecords

InitEngine ==
    /\ step = "quiz"
    /\ result = NULL
    /\ computations = 0
    /\ ClockSweep \/ ConfidenceSweep

NextEngine == step = "quiz" /\ calculateRecommendation

SpecEngine == InitEngine /\ [][NextEngine]_vars

----------------------------------------------------------------------------
(* What the properties below speak about *)

\* The locals calculateRecommendation computes from the inputs of the
\* current state.
locals ==
    Locals(currentTime, examTime, confidence, hoursStudied, quizAnswers)

\* A clock time in minutes since midnight, exactly.
ClockMinutes(t) == 60 * t[1] + t[2]

\* The time from currentTime to the next examTime, in minutes, exactly.
ClockDifference ==
    (ClockMinutes(examTime) - ClockMinutes(currentTime)) % 1440

\* The exact number of minutes a double hour value stands for, its
\* rounding error left out.
ExactMinutes(x) == x[1]

\* The rounding error of a double hour value is below 2^-38 hour.
NearlyExact(x) == x[2] > -60 * 1048576 /\ x[2] < 60 * 1048576

----------------------------------------------------------------------------
(* C1 *)

ProjectedBoostClamped(r) ==
    /\ r.decision \in {"sleep", "strategic-cram"}
    /\ r.projectedBoost >= 0
    /\ r.decision = "sleep" => r.projectedBoost = Max(0, r.boostS1)
    /\ r.decision = "strategic-cram" => r.projectedBoost = Max(0, r.boostS2)

\* C1: in every computed result projectedBoost is not negative: it is the
\* boost of the chosen scenario (boostS1 for sleep, boostS2 for
\* strategic-cram), raised to 0 when that boost is negative.
C1_ProjectedBoostNonNegative ==
    result # NULL => ProjectedBoostClamped(result)

\* A result whose chosen boost is negative and whose projectedBoost is 0.
C1_Witness ==
    /\ result # NULL
    /\ result.decision = "sleep"
    /\ result.boostS1 < 0
    /\ result.projectedBoost = 0

----------------------------------------------------------------------------
(* C2 *)

\* C2: whenever availableHours is below 5 (as the engine computes it, and
\* also whenever the clock difference is below 5 hours) the decision is
\* sleep, whatever the other inputs; 05:00 to 09:00 gives sleep with 4.0
\* available hours.
C2_ShortTimeMeansSleep ==
    result # NULL =>
        /\ DblLt(locals.availableHours, Whole(5)) \/ ClockDifference < 300
              => result.decision = "sleep"
        /\ currentTime = <<5, 0>> /\ examTime = <<9, 0>>
              => result.decision = "sleep" /\ result.availableHours = 40

\* The example: 05:00 to 09:00, decided.
C2_Witness ==
    /\ result # NULL
    /\ currentTime = <<5, 0>>
    /\ examTime = <<9, 0>>
    /\ hoursStudied = 0
    /\ result.decision = "sleep"
    /\ result.availableHours = 40

----------------------------------------------------------------------------
(* C3 *)

DecisionRule(l, r) ==
    /\ r.decision = "sleep" <=>
          \/ DblLt(l.availableHours, Whole(5))
          \/ /\ Points(l.boostS1) > l.boostS2
             /\ DblGe(l.sleepHoursS1, Whole(6))
    /\ r.decision # "sleep" => r.decision = "strategic-cram"

\* C3: the decision is sleep exactly when availableHours < 5 or
\* (boostS1 > boostS2 and sleepHoursS1 >= 6); otherwise, ties of the two
\* boosts included, it is strategic-cram.
C3_DecisionRule ==
    result # NULL => DecisionRule(locals, result)

TieWithEnoughSleep(l, r) ==
    /\ Points(l.boostS1) = l.boostS2
    /\ DblGe(l.sleepHoursS1, Whole(6))
    /\ r.decision = "strategic-cram"

\* A tie of the two boosts with at least 6 hours of sleep in scenario 1,
\* decided strategic-cram.
C3_Witness ==
    result # NULL /\ TieWithEnoughSleep(locals, result)

----------------------------------------------------------------------------
(* C4 *)

AvailableIsClockDifference(l, r) ==
    /\ ExactMinutes(l.availableHours) =
          IF ClockMinutes(examTime) - ClockMinutes(currentTime) < 0
          THEN ClockMinutes(examTime) - ClockMinutes(currentTime) + 24 * 60
          ELSE ClockMinutes(examTime) - ClockMinutes(currentTime)
    /\ NearlyExact(l.availableHours)
    /\ l.availableHours =
          IF DblLt(DblSub(l.exam, l.now), Whole(0))
          THEN DblAdd(DblSub(l.exam, l.now), Whole(24))
          ELSE DblSub(l.exam, l.now)
    /\ DblGe(l.availableHours, Whole(0))
    /\ DblLt(l.availableHours, Whole(24))
    /\ r.availableHours >= 0 /\ r.availableHours < 240
    /\ currentTime = <<23, 0>> /\ examTime = <<1, 0>>
          => l.availableHours = Whole(2) /\ r.availableHours = 20

\* C4: for every pair of clock times availableHours is the hour of the exam
\* minus the current hour, plus 24 when that difference is negative (up to
\* the rounding error of the double that holds it), and it lies in
\* [0, 24); 23:00 to 01:00 gives 2.0.
C4_AvailableHours ==
    result # NULL => AvailableIsClockDifference(locals, result)

\* The example, which wraps around midnight.
C4_Witness ==
    /\ result # NULL
    /\ currentTime = <<23, 0>>
    /\ examTime = <<1, 0>>
    /\ result.availableHours = 20

----------------------------------------------------------------------------
(* C5 *)

\* C5 as stated: the 24 hours are added whenever examTime <= currentTime,
\* the two being equal included.
C5_WrapWhenNotLater ==
    result # NULL /\ ClockMinutes(examTime) <= ClockMinutes(currentTime)
        => ExactMinutes(locals.availableHours) =
              ClockMinutes(examTime) - ClockMinutes(currentTime) + 24 * 60

WrapOnlyWhenEarlier(l, r) ==
    /\ ClockMinutes(examTime) < ClockMinutes(currentTime)
          => ExactMinutes(l.availableHours) =
                ClockMinutes(examTime) - ClockMinutes(currentTime) + 24 * 60
    /\ ClockMinutes(examTime) > ClockMinutes(currentTime)
          => ExactMinutes(l.availableHours) =
                ClockMinutes(examTime) - ClockMinutes(currentTime)
    /\ examTime = currentTime
          => /\ l.availableHours = Whole(0)
             /\ r.availableHours = 0
             /\ r.decision = "sleep"

\* C5 amended: the 24 hours are added exactly when examTime is earlier
\* than currentTime; when the two are equal nothing is added,
\* availableHours is 0 and the decision is sleep.
C5_WrapOnlyWhenEarlier ==
    result # NULL => WrapOnlyWhenEarlier(locals, result)

\* The exam at the very clock time of the computation.
C5_Witness ==
    /\ result # NULL
    /\ examTime = currentTime
    /\ result.availableHours = 0
    /\ result.decision = "sleep"

----------------------------------------------------------------------------
(* C6 *)

\* Confidence values of the three bands, their ends included.
HighBand == {75, 76, 100, 240}

NeutralBand == {36, 50, 74}

LowBand == {0, 20, 35}

CramStrictlyOrdered(hours, csf) ==
    /\ \A hi \in HighBand, ne \in NeutralBand :
           getCramBenefit(hours, csf, hi) < getCramBenefit(hours, csf, ne)
    /\ \A ne \in NeutralBand, lo \in LowBand :
           getCramBenefit(hours, csf, ne) < getCramBenefit(hours, csf, lo)

CramAlwaysZero(hours, csf) ==
    \A fc \in HighBand \cup NeutralBand \cup LowBand :
        getCramBenefit(hours, csf, fc) = 0

\* C6 as stated: for the study hours and the cognitive state factor of
\* any computation, cramBenefit under high confidence is strictly below
\* the one under neutral confidence, which is strictly below the one
\* under low confidence.
C6_CramStrictlyOrdered ==
    result # NULL =>
        CramStrictlyOrdered(locals.studyHoursS2, locals.cognitiveStateFactor)

CramOrderedWhenStudying(l) ==
    /\ DblGe(l.studyHoursS2, Whole(1))
          => CramStrictlyOrdered(l.studyHoursS2, l.cognitiveStateFactor)
    /\ DblLt(l.studyHoursS2, Whole(1))
          => CramAlwaysZero(l.studyHoursS2, l.cognitiveStateFactor)

\* C6 amended: the strict order high < neutral < low holds whenever the
\* study hours are at least 1; below 1 hour cramBenefit is 0 under every
\* confidence.
C6_CramOrderedWhenStudying ==
    result # NULL => CramOrderedWhenStudying(locals)

StudyingWithHighConfidence(l, r) ==
    /\ DblGe(l.studyHoursS2, Whole(1))
    /\ highConfidence(l.finalConfidence)
    /\ r.cramBenefitS2 > 0

\* A computation with at least one hour of study under high confidence.
C6_Witness ==
    result # NULL /\ StudyingWithHighConfidence(locals, result)

----------------------------------------------------------------------------
(* C7 *)

SleepBenefitSteps(x, b) ==
    /\ b \in {25, 15, 5, -25, -40}
    /\ b = 25 <=> DblGe(x, Whole(8))
    /\ b = 15 <=> DblGe(x, Whole(6)) /\ DblLt(x, Whole(8))
    /\ b = 5 <=> DblGe(x, Whole(4)) /\ DblLt(x, Whole(6))
    /\ b = -25 <=> DblGt(x, Whole(0)) /\ DblLt(x, Whole(4))
    /\ b = -40 <=> DblLe(x, Whole(0))

SleepBenefitMonotone(x, y) ==
    DblLe(x, y) => getSleepBenefit(x) <= getSleepBenefit(y)

SleepBenefitOfScenarios(l) ==
    /\ SleepBenefitSteps(l.sleepHoursS1, getSleepBenefit(l.sleepHoursS1))
    /\ SleepBenefitSteps(l.sleepHoursS2, getSleepBenefit(l.sleepHoursS2))
    /\ SleepBenefitMonotone(l.sleepHoursS1, l.sleepHoursS2)
    /\ SleepBenefitMonotone(l.sleepHoursS2, l.sleepHoursS1)
    /\ l.boostS1 = getSleepBenefit(l.sleepHoursS1)
    /\ l.sleepBenefitS2 = getSleepBenefit(l.sleepHoursS2)

\* C7: sleepBenefit is the step function 25 from 8 hours, 15 from 6 hours,
\* 5 from 4 hours, -25 above 0 hours and -40 at 0 hours or below; it never
\* decreases when the hours of sleep increase.  Checked at the break
\* points and at the hours of sleep of both scenarios of every
\* computation.
C7_SleepBenefitSteps ==
    /\ getSleepBenefit(Whole(8)) = 25
    /\ getSleepBenefit(Whole(6)) = 15
    /\ getSleepBenefit(Whole(4)) = 5
    /\ getSleepBenefit(RoundNearest[234, 0]) = -25
    /\ getSleepBenefit(Whole(0)) = -40
    /\ result # NULL => SleepBenefitOfScenarios(locals)

\* Exactly 8 hours of sleep in scenario 1 and fewer in scenario 2, on a
\* lower step.
C7_Witness ==
    /\ result # NULL
    /\ locals.sleepHoursS1 = Whole(8)
    /\ result.sleepBenefitS1 = 25
    /\ result.sleepBenefitS2 < 25

----------------------------------------------------------------------------
(* C8 *)

----------------------------------------------------------------------------
(* C9 *)

ExampleInputs ==
    /\ currentTime = <<22, 0>>
    /\ examTime = <<9, 0>>
    /\ hoursStudied = 0
    /\ confidence = 50
    /\ quizAnswers = [q1 |-> 0, q2 |-> 0, q3 |-> 0]

ExampleValues(l, r) ==
    /\ l.finalConfidence = 15
    /\ l.availableHours = Whole(11)
    /\ l.cognitiveStateFactor = 50
    /\ l.studyHoursS2 = Whole(3)
    /\ l.cramBenefitS2 = Points(25)
    /\ l.sleepHoursS2 = Whole(7)
    /\ l.sleepBenefitS2 = 15
    /\ l.boostS2 = Points(40)
    /\ l.sleepHoursS1 = Whole(10)
    /\ l.boostS1 = 25
    /\ r.decision = "strategic-cram"
    /\ r.projectedBoost = 40

\* C9: with currentTime 22:00, examTime 09:00, hoursStudied 0, the slider
\* at 50 and all answers 0, the engine gets finalConfidence 15, cognitive
\* state factor 0.5, studyHoursS2 3, cramBenefitS2 25, sleepHoursS2 7,
\* sleepBenefitS2 15, boostS2 40, sleepHoursS1 10, boostS1 25, and decides
\* strategic-cram with projectedBoost 40.
C9_Example ==
    result # NULL /\ ExampleInputs => ExampleValues(locals, result)

\* The example, computed.
C9_Witness ==
    /\ ExampleInputs
    /\ result # NULL
    /\ result.decision = "strategic-cram"
    /\ result.projectedBoost = 40
    /\ result.adjustedConfidence = 15

----------------------------------------------------------------------------
(* C10 *)

QuizSum == quizAnswers.q1 + quizAnswers.q2 + quizAnswers.q3

ConfidenceBlend(l, r) ==
    /\ r.adjustedConfidence = l.finalConfidence
    /\ 10 * r.adjustedConfidence - (7 * QuizSum + 3 * confidence) \in -5..5
    /\ r.adjustedConfidence \in 0..240
    /\ 100 * l.cramBenefitS2 =
          getCramBenefit(l.studyHoursS2, l.cognitiveStateFactor, 50)
          * (IF r.adjustedConfidence <= 35 THEN 125
             ELSE IF r.adjustedConfidence >= 75 THEN 75
             ELSE 100)

\* C10: finalConfidence is 0.7 * (q1 + q2 + q3) + 0.3 * slider rounded to
\* an integer nearest to it, with the sum of the answers and no clamping:
\* it ranges over 0..240, is reported as adjustedConfidence, and is the
\* value compared with 35 and 75 for the cram benefit.
C10_ConfidenceBlend ==
    result # NULL => ConfidenceBlend(locals, result)

\* All answers 100 and the slider at 100: adjustedConfidence 240.
C10_Witness ==
    /\ result # NULL
    /\ QuizSum = 300
    /\ confidence = 100
    /\ result.adjustedConfidence = 240

----------------------------------------------------------------------------
(* C11 *)

ScenarioHours(l) ==
    /\ l.sleepHoursS1 = DblMax(Whole(0), DblSub(l.availableHours, Whole(1)))
    /\ l.studyHoursS2 =
          DblMin(Whole(3),
                 DblMax(Whole(0), DblSub(l.availableHours, Whole(7))))
    /\ DblGe(l.studyHoursS2, Whole(0))
    /\ DblLe(l.studyHoursS2, Whole(3))
    /\ l.sleepHoursS2 =
          DblMax(Whole(0),
                 DblSub(DblSub(l.availableHours, l.studyHoursS2), Whole(1)))

BudgetExact(l) ==
    DblGe(l.availableHours, Whole(1)) =>
        /\ DblAdd(DblAdd(l.studyHoursS2, l.sleepHoursS2), Whole(1))
              = l.availableHours
        /\ ExactMinutes(l.studyHoursS2) + ExactMinutes(l.sleepHoursS2) + 60
              = ExactMinutes(l.availableHours)

\* C11: sleepHoursS1 = max(0, availableHours - 1); studyHoursS2 is
\* availableHours - 7 held within 0..3; sleepHoursS2 =
\* max(0, availableHours - studyHoursS2 - 1); and whenever availableHours
\* is at least 1, studyHoursS2 + sleepHoursS2 + 1 = availableHours, both
\* as the doubles the code adds and in whole minutes.
C11_ScenarioHours ==
    result # NULL => ScenarioHours(locals) /\ BudgetExact(locals)

PartOfAnHourOfStudy(l) ==
    /\ DblGt(l.studyHoursS2, Whole(0))
    /\ DblLt(l.studyHoursS2, Whole(3))
    /\ ExactMinutes(l.studyHoursS2) % 60 # 0
    /\ ExactMinutes(l.studyHoursS2) + ExactMinutes(l.sleepHoursS2) + 60
          = ExactMinutes(l.availableHours)

\* A split with a study time between 0 and 3 hours that is no whole
\* number of hours.
C11_Witness ==
    result # NULL /\ PartOfAnHourOfStudy(locals)

----------------------------------------------------------------------------
(* C12 *)

Abs(n) == IF n < 0 THEN -n ELSE n

ChosenNotLower(l, r) ==
    /\ r.decision = "sleep" =>
          /\ Points(l.boostS1) >= l.boostS2
          /\ r.boostS1 >= r.boostS2
          /\ Abs(r.boostS1 - r.boostS2) = r.boostS1 - r.boostS2
    /\ r.decision = "strategic-cram" =>
          /\ l.boostS2 >= Points(l.boostS1)
          /\ r.boostS2 >= r.boostS1
          /\ Abs(r.boostS1 - r.boostS2) = r.boostS2 - r.boostS1

\* C12: the boost of the chosen plan is never below the boost of the other
\* plan, before rounding and as reported: sleep implies boostS1 >= boostS2,
\* strategic-cram implies boostS2 >= boostS1, so |boostS1 - boostS2| is
\* what the chosen plan has more.
C12_ChosenNotLower ==
    result # NULL => ChosenNotLower(locals, result)

\* Sleep chosen with at least 5 available hours because its boost is
\* strictly the higher one.
C12_Witness ==
    /\ result # NULL
    /\ result.decision = "sleep"
    /\ result.reasoning = "max-sleep"
    /\ result.boostS1 > result.boostS2

----------------------------------------------------------------------------
(* C13 *)

StudyKeepsMinimumSleep(l) ==
    DblGt(l.studyHoursS2, Whole(0)) => DblGe(l.sleepHoursS2, Whole(6))

\* C13: whenever studyHoursS2 is above 0, sleepHoursS2 is at least
\* minSleepNeeded, 6 hours.
C13_StudyKeepsMinimumSleep ==
    result # NULL => StudyKeepsMinimumSleep(locals)

StudyDownToMinimumSleep(l) ==
    /\ DblGt(l.studyHoursS2, Whole(0))
    /\ DblLt(l.studyHoursS2, Whole(1))
    /\ l.sleepHoursS2 = Whole(6)

\* Less than an hour of study, which leaves exactly 6 hours of sleep.
C13_Witness ==
    result # NULL /\ StudyDownToMinimumSleep(locals)

----------------------------------------------------------------------------
(* C14 *)

CramPlanHasStudy(l, r) ==
    r.decision = "strategic-cram" =>
        /\ DblGt(l.studyHoursS2, Whole(0))
        /\ r.actionPlan.study > 0
        /\ r.effectiveStudyHours > 0

\* C14: whenever the decision is strategic-cram, studyHoursS2 is above 0,
\* the action plan does not say "Study for 0 hours" and
\* effectiveStudyHours is positive.
C14_CramPlanHasStudy ==
    result # NULL => CramPlanHasStudy(locals, result)

----------------------------------------------------------------------------
(* C15 *)

\* C15: after any sequence of operations of the three screens the stored
\* result is non-null exactly when step is 'result': the result screen is
\* never reached without a result and no result survives a reset.
C15_ResultIffResultStep ==
    result # NULL <=> step = "result"

\* Back on the form after a result was shown and reset.
C15_Witness ==
    /\ step = "input"
    /\ result = NULL
    /\ computations >= 1

----------------------------------------------------------------------------
(* C16 *)

ComputedFromQuizWithAnswers ==
    result' # NULL /\ result' # result =>
        /\ step = "quiz"
        /\ step' = "result"
        /\ ~submitDisabled
        /\ quizAnswers' = quizAnswers

ResetClearsAnswers ==
    step = "result" /\ step' # "result" =>
        quizAnswers' = [q1 |-> 0, q2 |-> 0, q3 |-> 0]

\* C16: a result is stored only by a step taken on the quiz screen while
\* at least one of the three answers is not 0 (the submit button is
\* disabled exactly when all three are 0); leaving the result screen sets
\* all three answers to 0; so every result shown was computed from
\* answers that are not all 0.
C16_SubmitOnlyWithAnswers ==
    /\ [](Screen = "result" => ~submitDisabled)
    /\ [][ComputedFromQuizWithAnswers /\ ResetClearsAnswers]_vars

\* A result shown that was computed from a single answered question.
C16_Witness ==
    /\ Screen = "result"
    /\ quizAnswers.q1 = 0
    /\ quizAnswers.q2 = 0
    /\ quizAnswers.q3 = 33
    /\ result.adjustedConfidence > 0

====
